---- MODULE Spec2Model ----
(***************************************************************************)
(* Model of src/main.py: the credential rotation manager (KeyManager), the *)
(* response sanitizer (clean_json_response), the JSON parse step and the   *)
(* four POST route handlers of the FastAPI application.                    *)
(*                                                                         *)
(* Texts are sequences of one-character strings.  The external language    *)
(* model is an opaque collaborator: its reply is drawn from Replies, or    *)
(* the call raises.  The handlers are async def coroutines that contain    *)
(* no await, so once the event loop has entered a handler it runs that     *)
(* handler to its return before it enters another one (LoopFree).          *)
(***************************************************************************)
EXTENDS Integers, Sequences, FiniteSets, TLC

VARIABLES env, keys, key_cycle, api_key, fetched, req, san

vars == <<env, keys, key_cycle, api_key, fetched, req, san>>

\* ------------------------------------------------------------------ bounds
MaxRequests == 4
MaxFetches == 8
MaxPieces == 4

\* ------------------------------------------------ KeyManager (lines 14-31)
NumSlots == 7
Slots == 1..NumSlots

\* os.environ.get returns None for a variable that is not set
Unset == "<None>"
dummy_key == "dummy_key"

\* the value slot i holds when GEMINI_CHAVE_i is configured with a secret
SlotSecret == <<"key_1", "key_2", "key_3", "key_4", "key_5", "key_6", "key_7">>

\* `if key:` without the test for the empty string
Truthy_not_none(v) == v # Unset

\* `if key:` : None and "" are both falsy
Truthy(v) == v # Unset /\ v # ""

RECURSIVE CollectKeys(_, _)
\* for i in range(1, 8): key = os.environ.get(...); if key: self.keys.append(key)
CollectKeys(e, i) ==
    IF i > NumSlots THEN <<>>
    ELSE (IF Truthy(e[i]) THEN <<e[i]>> ELSE <<>>) \o CollectKeys(e, i + 1)

\* KeyManager.__init__: the keys found, or the single placeholder
KeyManagerInit(e) ==
    LET found == CollectKeys(e, 1)
    IN IF found = <<>> THEN <<dummy_key>> ELSE found

\* a cycle whose cursor never moves
cycle_stuck(pos) == pos

\* itertools.cycle over self.keys: the position after the one just returned
cycle_next(pos) == (pos % Len(keys)) + 1


\* ------------------------------------ clean_json_response (lines 68-70)
\* the backquote character U+0060, written ' in this module
Tick == "'"

\* the two literals the sanitizer removes: three backquotes followed by json,
\* and three backquotes
FenceJson == <<Tick, Tick, Tick, "j", "s", "o", "n">>
Fence == <<Tick, Tick, Tick>>

\* the whitespace of the alphabet: what str.strip() removes, and what JSON
\* allows between tokens
Whitespace == {" ", "\n"}

RECURSIVE str_replace(_, _)
\* text.replace(old, ""): every non-overlapping occurrence, leftmost first
str_replace(text, old) ==
    IF Len(text) < Len(old) THEN text
    ELSE IF SubSeq(text, 1, Len(old)) = old
         THEN str_replace(SubSeq(text, Len(old) + 1, Len(text)), old)
         ELSE <<Head(text)>> \o str_replace(Tail(text), old)

RECURSIVE str_lstrip(_)
str_lstrip(text) ==
    IF text # <<>> /\ Head(text) \in Whitespace THEN str_lstrip(Tail(text)) ELSE text

RECURSIVE str_rstrip(_)
str_rstrip(text) ==
    IF text # <<>> /\ text[Len(text)] \in Whitespace
    THEN str_rstrip(SubSeq(text, 1, Len(text) - 1))
    ELSE text

\* text.strip()
str_strip(text) == str_rstrip(str_lstrip(text))

\* the sanitizer with the trim applied before the markers are removed
clean_strip_first(text) ==
    str_replace(str_replace(str_strip(text), FenceJson), Fence)

\* text.replace(FenceJson, "").replace(Fence, "").strip()
clean_json_response(text) ==
    str_strip(str_replace(str_replace(text, FenceJson), Fence))

\* ------------------------------------------------- json.loads (stdlib)
\* The alphabet has no digits, no backslash and none of the letters of
\* true/false/null: a JSON value is a string, an array or an object.
RECURSIVE skip_ws(_, _)
skip_ws(s, i) ==
    IF i <= Len(s) /\ s[i] \in Whitespace THEN skip_ws(s, i + 1) ELSE i

RECURSIVE scan_string(_, _)
\* i is the position after the opening quote; the position after the closing
\* quote, or 0: unterminated, or a control character inside the string
scan_string(s, i) ==
    IF i > Len(s) THEN 0
    ELSE IF s[i] = "\"" THEN i + 1
    ELSE IF s[i] = "\n" THEN 0
    ELSE scan_string(s, i + 1)

RECURSIVE parse_value(_, _)
RECURSIVE parse_elements(_, _)
RECURSIVE parse_members(_, _)

\* the position after the value that starts at i, or 0 when there is none
parse_value(s, i) ==
    IF i > Len(s) THEN 0
    ELSE IF s[i] = "\"" THEN scan_string(s, i + 1)
    ELSE IF s[i] = "["
         THEN LET k == skip_ws(s, i + 1)
              IN IF k <= Len(s) /\ s[k] = "]" THEN k + 1 ELSE parse_elements(s, k)
    ELSE IF s[i] = "{"
         THEN LET k == skip_ws(s, i + 1)
              IN IF k <= Len(s) /\ s[k] = "}" THEN k + 1 ELSE parse_members(s, k)
    ELSE 0

parse_elements(s, i) ==
    LET e == parse_value(s, i)
        k == skip_ws(s, e)
    IN IF e = 0 \/ k > Len(s) THEN 0
       ELSE IF s[k] = "]" THEN k + 1
       ELSE IF s[k] = "," THEN parse_elements(s, skip_ws(s, k + 1))
       ELSE 0

parse_members(s, i) ==
    IF i > Len(s) \/ s[i] # "\"" THEN 0
    ELSE LET e == scan_string(s, i + 1)
             c == skip_ws(s, e)
         IN IF e = 0 \/ c > Len(s) \/ s[c] # ":" THEN 0
            ELSE LET v == parse_value(s, skip_ws(s, c + 1))
                     k == skip_ws(s, v)
                 IN IF v = 0 \/ k > Len(s) THEN 0
                    ELSE IF s[k] = "}" THEN k + 1
                    ELSE IF s[k] = "," THEN parse_members(s, skip_ws(s, k + 1))
                    ELSE 0

\* json.loads(s) returns a value (TRUE) or raises JSONDecodeError (FALSE)
json_valid(s) ==
    LET e == parse_value(s, skip_ws(s, 1))
    IN e # 0 /\ skip_ws(s, e) = Len(s) + 1

RECURSIVE json_tokens(_, _, _)
json_tokens(s, i, in_string) ==
    IF i > Len(s) THEN <<>>
    ELSE IF s[i] = "\"" THEN <<s[i]>> \o json_tokens(s, i + 1, ~in_string)
    ELSE IF ~in_string /\ s[i] \in Whitespace THEN json_tokens(s, i + 1, in_string)
    ELSE <<s[i]>> \o json_tokens(s, i + 1, in_string)

\* The value json.loads(s) returns for a valid s, written without the
\* whitespace between its tokens: two valid texts have the same tokens exactly
\* when they parse to values that are equal field for field, in the same order.
json_loads(s) == json_tokens(s, 1, FALSE)


\* ------------------------------------------ the collaborator's replies
Part(o, i, c) == [open |-> o, inner |-> i, close |-> c]
NoParts == Part(<<>>, <<>>, <<>>)

\* response.text: the raw text of a reply
Raw(p) == p.open \o p.inner \o p.close

ListEmpty == <<"[", "]">>
ObjEmpty == <<"{", "}">>
ListOne == <<"[", "\"", "a", "\"", "]">>
ObjOne == <<"{", "\"", "a", "\"", ":", "\"", "b", "\"", "}">>
ListSpaced == <<" ", "[", "\"", "a", "\"", ",", " ", "\"", "b", "\"", "]", "\n">>
\* a list whose one string holds three backquotes
ListTickString == <<"[", "\"", Tick, Tick, Tick, "a", "\"", "]">>
Prose == <<"a", " ", "b">>
Truncated == <<"[", "\"", "a", "\"">>
\* two backquotes, the json marker, one backquote
OddTicks == <<Tick, Tick>> \o FenceJson \o <<Tick>>

Inners ==
    {ListEmpty, ObjEmpty, ListOne, ObjOne, ListSpaced, ListTickString,
     Prose, Truncated, <<>>}

Replies ==
    {Part(<<>>, i, <<>>) : i \in Inners}
    \cup {Part(FenceJson \o <<"\n">>, i, <<"\n">> \o Fence) : i \in Inners}
    \cup {Part(Fence, i, Fence \o <<"\n">>) : i \in Inners}
    \cup {Part(<<>>, OddTicks, <<>>)}

\* ------------------------------------------------ routes (lines 76-211)
Routes ==
    {"analisar_compras", "sugerir_receita", "sugerir_complementos_lista",
     "conferir_carrinho"}

\* the number of entries of the list the handler tests: produtos,
\* ingredientes, itens_lista, lista_planejada
ItemCounts == {0, 1}

NoResponse ==
    [status |-> 0, wrap |-> "", titulo |-> "", receita_texto |-> <<>>, value |-> <<>>]

\* a JSON body {wrap: value}; value is the token text of a JSON value
Wrapped(wrap, value) ==
    [status |-> 200, wrap |-> wrap, titulo |-> "", receita_texto |-> <<>>,
     value |-> value]

\* a JSON body {"titulo": titulo, "receita_texto": texto} built by the handler
Receita(titulo, texto) ==
    [status |-> 200, wrap |-> "", titulo |-> titulo, receita_texto |-> texto,
     value |-> <<>>]

\* what the transport answers when an exception leaves the handler
ServerError ==
    [status |-> 500, wrap |-> "", titulo |-> "", receita_texto |-> <<>>, value |-> <<>>]

WrapKey(route) ==
    CASE route = "analisar_compras" -> "analise"
      [] route = "sugerir_complementos_lista" -> "sugestoes"
      [] route = "conferir_carrinho" -> "faltantes"
      [] OTHER -> ""

\* the return of the empty-input branch (lines 84, 120, 159, 189)
ShortCircuit(route) ==
    IF route = "sugerir_receita"
    THEN Receita("Ops", <<"Adicione itens ao carrinho para eu criar uma receita.">>)
    ELSE Wrapped(WrapKey(route), ListEmpty)

\* the return of the except branch (lines 114, 153, 183, 211)
Fallback(route) ==
    IF route = "sugerir_receita"
    THEN Receita("Erro na Cozinha", <<"Tente novamente em alguns segundos.">>)
    ELSE Wrapped(WrapKey(route), ListEmpty)

\* a handler that accepts a list only
RouteResult_lists_only(route, value) ==
    IF value # <<>> /\ value[1] = "[" THEN Wrapped(WrapKey(route), value)
    ELSE Fallback(route)

\* the return of the try branch (lines 110, 149, 179, 207): the parsed value
\* under the route's key; the recipe route returns the parsed value itself
RouteResult(route, value) == Wrapped(WrapKey(route), value)

\* what the collaborator's library may raise, and what json.loads raises
LibraryErrors == {"GoogleAPIError", "ValueError"}
JSONDecodeError == "JSONDecodeError"

\* the handler with `except json.JSONDecodeError`
ExceptOutcome_narrow(route, e) ==
    IF e = JSONDecodeError
    THEN [pc |-> "return", response |-> Fallback(route)]
    ELSE [pc |-> "raise", response |-> ServerError]

\* the handler that calls the collaborator again after a failed call
ExceptOutcome_retry(route, e) ==
    IF e = JSONDecodeError
    THEN [pc |-> "return", response |-> Fallback(route)]
    ELSE [pc |-> "generate", response |-> NoResponse]

\* `except Exception as e: print(...); return <fallback>`: every error of
\* the try block is a subclass of Exception
ExceptOutcome(route, e) ==
    IF e \in LibraryErrors \cup {JSONDecodeError}
    THEN [pc |-> "return", response |-> Fallback(route)]
    ELSE [pc |-> "raise", response |-> ServerError]

\* `if not request.<list>` that never holds
Falsy_never(n) == FALSE

\* `not request.<list>`: an empty list is falsy
Falsy(n) == n = 0

\* ---------------------------------------------------------------- state
Requests == 1..MaxRequests

Blank(pc) ==
    [pc |-> pc, route |-> "", n_items |-> 0, current_key |-> "", used_key |-> "",
     calls |-> 0, raised |-> "", got_reply |-> FALSE, reply |-> NoParts,
     sanitized |-> <<>>, response |-> NoResponse]

EnvOf(S, E) ==
    [i \in Slots |-> IF i \in S THEN SlotSecret[i] ELSE IF i \in E THEN "" ELSE Unset]

\* every environment: each slot unset, set to the empty string, or set
AllEnvs == {EnvOf(p[1], p[2]) : p \in (SUBSET Slots) \X (SUBSET Slots)}

\* environments with no key, one key, two keys and three keys
SampleEnvs ==
    {EnvOf({}, {}), EnvOf({}, {1, 6}), EnvOf({3}, {}), EnvOf({2, 5}, {3}),
     EnvOf({1, 4, 7}, {})}

\* a text before it is sanitized
Unsanitized(p) == [part |-> p, runs |-> 0, first |-> <<>>, last |-> <<>>]

InitWith(envs) ==
    /\ san = Unsanitized(NoParts)
    /\ env \in envs
    /\ keys = KeyManagerInit(env)
    /\ key_cycle = 1
    /\ api_key = ""
    /\ fetched = <<>>
    /\ req = [r \in Requests |-> Blank("idle")]

Init == InitWith(SampleEnvs)

\* a handler is a coroutine without an await, run as if in a thread pool
LoopFree_threads == TRUE

\* the event loop runs one handler at a time: a handler is `async def` and
\* has no await, so nothing else runs between its entry and its return
LoopFree == \A r \in Requests : req[r].pc \notin {"get_model", "generate", "return", "raise"}

\* a request reaches the application; its body is read when it is dispatched
Arrive(r) ==
    /\ req[r].pc = "idle"
    /\ \A q \in Requests : q < r => req[q].pc # "idle"
    /\ req' = [req EXCEPT ![r].pc = "pending"]
    /\ UNCHANGED <<env, keys, key_cycle, api_key, fetched, san>>

\* the handler is entered with the request's body: the empty-input test
Enter(r, route, n) ==
    /\ req[r].pc = "pending"
    /\ LoopFree
    /\ req' = [req EXCEPT ![r] =
          IF Falsy(n)
          THEN [@ EXCEPT !.pc = "return", !.route = route, !.n_items = n,
                         !.response = ShortCircuit(route)]
          ELSE [@ EXCEPT !.pc = "get_model", !.route = route, !.n_items = n]]
    /\ UNCHANGED <<env, keys, key_cycle, api_key, fetched, san>>

\* get_gemini_model(): get_next_key, genai.configure, GenerativeModel; the
\* library may raise, before or after it has stored the key
GetGeminiModel(r) ==
    /\ req[r].pc = "get_model"
    /\ LET key == keys[key_cycle]
       IN /\ key_cycle' = cycle_next(key_cycle)
          /\ fetched' = Append(fetched, key)
          /\ \/ /\ api_key' = key
                /\ req' = [req EXCEPT ![r].current_key = key, ![r].pc = "generate"]
             \/ \E e \in LibraryErrors :
                  /\ api_key' \in {api_key, key}
                  /\ req' = [req EXCEPT ![r].current_key = key, ![r].raised = e,
                                        ![r].pc = ExceptOutcome(req[r].route, e).pc,
                                        ![r].response = ExceptOutcome(req[r].route, e).response]
    /\ UNCHANGED <<env, keys, san>>

\* model.generate_content(prompt) raises
GenerateRaises(r, e) ==
    /\ req[r].pc = "generate"
    /\ req' = [req EXCEPT ![r].calls = @ + 1, ![r].used_key = api_key, ![r].raised = e,
                          ![r].pc = ExceptOutcome(req[r].route, e).pc,
                          ![r].response = ExceptOutcome(req[r].route, e).response]
    /\ UNCHANGED <<env, keys, key_cycle, api_key, fetched, san>>

\* model.generate_content(prompt) answers p; the handler sanitizes and parses
\* the text and returns, or json.loads raises
GenerateReplies(r, p) ==
    /\ req[r].pc = "generate"
    /\ LET text == clean_json_response(Raw(p))
           seen == [req[r] EXCEPT !.calls = @ + 1, !.used_key = api_key,
                                  !.got_reply = TRUE, !.reply = p, !.sanitized = text]
       IN req' = [req EXCEPT ![r] =
             IF json_valid(text)
             THEN [seen EXCEPT !.pc = "return",
                               !.response = RouteResult(seen.route, json_loads(text))]
             ELSE [seen EXCEPT !.raised = JSONDecodeError,
                               !.pc = ExceptOutcome(seen.route, JSONDecodeError).pc,
                               !.response = ExceptOutcome(seen.route, JSONDecodeError).response]]
    /\ UNCHANGED <<env, keys, key_cycle, api_key, fetched, san>>

\* the transport sends what the handler returned; the handler's locals are gone
Respond(r) ==
    /\ req[r].pc \in {"return", "raise"}
    /\ req' = [req EXCEPT ![r] = Blank("done")]
    /\ UNCHANGED <<env, keys, key_cycle, api_key, fetched, san>>

Next ==
    \/ \E r \in Requests : Arrive(r)
    \/ \E r \in Requests, route \in Routes, n \in ItemCounts : Enter(r, route, n)
    \/ \E r \in Requests : GetGeminiModel(r)
    \/ \E r \in Requests, e \in LibraryErrors : GenerateRaises(r, e)
    \/ \E r \in Requests, p \in Replies : GenerateReplies(r, p)
    \/ \E r \in Requests : Respond(r)

Spec == Init /\ [][Next]_vars

\* ------------------------------------------- the key manager on its own
InitKeys == InitWith(AllEnvs)

\* key_manager.get_next_key()
GetNextKey ==
    /\ Len(fetched) < MaxFetches
    /\ fetched' = Append(fetched, keys[key_cycle])
    /\ key_cycle' = cycle_next(key_cycle)
    /\ UNCHANGED <<env, keys, api_key, req, san>>

NextKeys == GetNextKey

SpecKeys == InitKeys /\ [][NextKeys]_vars


\* ------------------------------------------- the sanitizer on its own
Pieces ==
    {<<Tick>>, Fence, <<"j", "s", "o", "n">>, <<" ">>, <<"[">>, <<"]">>,
     <<"\"", "a", "\"">>}

RECURSIVE Concats(_)
\* the texts made of at most n pieces
Concats(n) ==
    IF n = 0 THEN {<<>>}
    ELSE LET shorter == Concats(n - 1)
         IN shorter \cup {t \o q : t \in shorter, q \in Pieces}

\* a text as it is, between the json marker and a closing marker on lines of
\* their own, and between two bare markers
Wrappings(i) ==
    {Part(<<>>, i, <<>>),
     Part(FenceJson \o <<"\n">>, i, <<"\n">> \o Fence),
     Part(Fence, i, Fence \o <<"\n">>)}

InitClean ==
    /\ env = EnvOf({}, {})
    /\ keys = KeyManagerInit(env)
    /\ key_cycle = 1
    /\ api_key = ""
    /\ fetched = <<>>
    /\ req = [r \in Requests |-> Blank("idle")]
    /\ \E i \in Concats(MaxPieces) : \E p \in Wrappings(i) : san = Unsanitized(p)

\* clean_json_response(response.text)
Sanitize ==
    /\ san.runs = 0
    /\ LET text == clean_json_response(Raw(san.part))
       IN san' = [san EXCEPT !.runs = 1, !.first = text, !.last = text]
    /\ UNCHANGED <<env, keys, key_cycle, api_key, fetched, req>>

\* clean_json_response applied to its own output
SanitizeAgain ==
    /\ san.runs = 1
    /\ san' = [san EXCEPT !.runs = 2, !.last = clean_json_response(san.last)]
    /\ UNCHANGED <<env, keys, key_cycle, api_key, fetched, req>>

NextClean == Sanitize \/ SanitizeAgain

SpecClean == InitClean /\ [][NextClean]_vars


\* ================================================================ claims
\* requests whose handler has been entered and whose response is not sent yet
Handled == {r \in Requests : req[r].pc \in {"get_model", "generate", "return", "raise"}}
Returned == {r \in Requests : req[r].pc \in {"return", "raise"}}

\* the body {key: []} of the three list routes
IsEmptyListBody(resp, route) ==
    /\ resp.status = 200
    /\ resp.wrap = (IF route = "analisar_compras" THEN "analise"
                    ELSE IF route = "sugerir_complementos_lista" THEN "sugestoes"
                    ELSE "faltantes")
    /\ resp.value = <<"[", "]">>
    /\ resp.titulo = "" /\ resp.receita_texto = <<>>

\* the documented fallback payload of a route
IsDocumentedFallback(resp, route) ==
    IF route = "sugerir_receita"
    THEN /\ resp.status = 200
         /\ resp.titulo = "Erro na Cozinha"
         /\ resp.receita_texto = <<"Tente novamente em alguns segundos.">>
         /\ resp.value = <<>>
    ELSE IsEmptyListBody(resp, route)

\* C1: the i-th credential fetch returns the credential at position
\* (i - 1) mod K of the set, so the sequence of fetches has period K, and
\* after N fetches every credential has been returned floor(N/K) or
\* ceil(N/K) times, whatever the order in which the handlers ran.
C1_RoundRobin ==
    LET K == Len(keys)
        N == Len(fetched)
    IN /\ \A i \in 1..N : fetched[i] = keys[((i - 1) % K) + 1]
       /\ \A p \in 1..K :
            Cardinality({i \in 1..N : fetched[i] = keys[p]})
                \in {N \div K, (N + K - 1) \div K}

\* three fetches from a set of two credentials: the rotation has wrapped, and
\* another request is waiting while one is served
C1_Witness ==
    /\ Len(keys) = 2 /\ Len(fetched) = 3
    /\ \E r, q \in Requests : req[r].pc = "generate" /\ req[q].pc = "pending"

\* C2: when the external call, or the credential/model setup before it,
\* raises, the handler returns the route's documented fallback payload as a
\* normal response, and no exception leaves a handler.
C2_FallbackGuarantee ==
    \A r \in Requests :
        /\ req[r].pc # "raise"
        /\ req[r].raised \in LibraryErrors =>
              /\ req[r].pc = "return"
              /\ IsDocumentedFallback(req[r].response, req[r].route)

\* the external call of a recipe request raised and the handler has returned
C2_Witness ==
    \E r \in Requests :
        /\ req[r].route = "sugerir_receita" /\ req[r].raised \in LibraryErrors
        /\ req[r].calls = 1 /\ req[r].pc = "return"

\* C3: on the recipe route, when the external call succeeds and the
\* sanitized text is not valid JSON, receita_texto of the response is that
\* sanitized text and titulo is a placeholder.
C3_RecipeRawText ==
    \A r \in Returned :
        (req[r].route = "sugerir_receita" /\ req[r].got_reply
            /\ ~json_valid(req[r].sanitized)) =>
          /\ req[r].response.status = 200
          /\ req[r].response.titulo # ""
          /\ req[r].response.receita_texto = req[r].sanitized

\* C4: a request whose list is empty gets the route's empty-input payload,
\* and for that request no credential is fetched and the collaborator is
\* never called.
C4_EmptyShortCircuit ==
    \A r \in Handled :
        req[r].n_items = 0 =>
          /\ req[r].pc = "return"
          /\ req[r].calls = 0 /\ req[r].current_key = "" /\ ~req[r].got_reply
          /\ IF req[r].route = "sugerir_receita"
             THEN /\ req[r].response.status = 200
                  /\ req[r].response.titulo = "Ops"
                  /\ req[r].response.receita_texto =
                       <<"Adicione itens ao carrinho para eu criar uma receita.">>
             ELSE IsEmptyListBody(req[r].response, req[r].route)

\* an empty recipe request has returned, after an earlier request fetched a key
C4_Witness ==
    \E r \in Returned :
        /\ req[r].route = "sugerir_receita" /\ req[r].n_items = 0
        /\ Len(fetched) > 0

\* the kind of JSON value a route declares: the recipe route an object, the
\* other routes a list
DeclaredOpening(route) == IF route = "sugerir_receita" THEN "{" ELSE "["

Configured == {i \in Slots : env[i] # Unset /\ env[i] # ""}

\* C6: with no slot configured the credential set is the one placeholder and
\* every fetch returns it; otherwise the set is the configured non-empty
\* values in ascending slot order.
C6_KeyManagerInit ==
    /\ Len(keys) >= 1
    /\ Configured = {} =>
          /\ keys = <<"dummy_key">>
          /\ \A i \in 1..Len(fetched) : fetched[i] = "dummy_key"
    /\ Configured # {} =>
          /\ Len(keys) = Cardinality(Configured)
          /\ \A j \in 1..Len(keys) :
                \E i \in Configured :
                    /\ Cardinality({q \in Configured : q < i}) = j - 1
                    /\ keys[j] = env[i]

\* no slot holds a key, two slots hold the empty string, and the placeholder
\* has been fetched twice
C6_Witness ==
    /\ Configured = {}
    /\ Cardinality({i \in Slots : env[i] = ""}) = 2
    /\ Len(fetched) = 2

\* C7 as claimed: every request makes exactly one external call.
C7_ExactlyOneCall ==
    \A r \in Returned : req[r].calls = 1

\* C7 amended: a request makes at most one external call: none when its list
\* is empty or the credential/model setup raised, exactly one otherwise; a
\* failed attempt is terminal and yields the fallback at once.
C7_AtMostOneCallNoRetry ==
    \A r \in Requests :
        /\ req[r].calls <= 1
        /\ req[r].raised # "" =>
              /\ req[r].pc = "return"
              /\ IsDocumentedFallback(req[r].response, req[r].route)
        /\ r \in Returned =>
              IF req[r].n_items = 0 THEN req[r].calls = 0
              ELSE \/ req[r].calls = 1
                   \/ /\ req[r].calls = 0
                      /\ req[r].raised \in LibraryErrors
                      /\ ~req[r].got_reply

\* a request whose one external call raised has returned
C7_Witness ==
    \E r \in Returned :
        /\ req[r].calls = 1 /\ req[r].raised \in LibraryErrors
        /\ req[r].n_items > 0

\* C8: when the reply is itself well-formed JSON of the route's shape (a list
\* of strings on the checklist route), sanitizing and parsing it gives the
\* value the reply denotes.
C8_RoundTrip ==
    \A r \in Returned :
        (req[r].route = "conferir_carrinho" /\ req[r].got_reply
            /\ json_valid(Raw(req[r].reply)) /\ Raw(req[r].reply)[1] = "[") =>
          req[r].response.value = json_loads(Raw(req[r].reply))

\* t holds the three-backquote marker (and so every marker the sanitizer knows)
HasFence(t) == \E i \in 1..Len(t) : i + 2 <= Len(t) /\ SubSeq(t, i, i + 2) = Fence

\* s is t without the whitespace around it
IsTrimOf(s, t) ==
    \E i \in 1..(Len(t) + 1) : \E j \in 0..Len(t) :
        /\ s = SubSeq(t, i, j)
        /\ \A k \in 1..Len(t) : (k < i \/ k > j) => t[k] \in Whitespace
        /\ s # <<>> => (s[1] \notin Whitespace /\ s[Len(s)] \notin Whitespace)

C10_OwnCredentialUsed ==
    \A r \in Requests :
        /\ req[r].pc = "generate" => api_key = req[r].current_key
        /\ req[r].calls >= 1 => req[r].used_key = req[r].current_key

\* the second of two credentials is used by a call while another request waits
C10_Witness ==
    \E r, q \in Requests :
        /\ Len(keys) >= 2 /\ req[r].calls = 1 /\ req[r].used_key = keys[2]
        /\ req[q].pc = "pending"

====
